---- MODULE Spec2Model ----
(***************************************************************************)
(* StorageController (storage.controller.ts): upload of avatars and        *)
(* tutoring images through a disk staging file, and the lookup / delete    *)
(* pass-throughs to the storage services.                                  *)
(*                                                                         *)
(* A request is followed from the multipart interceptor to the handler's   *)
(* exit.  The handler is split where the code awaits the storage service:  *)
(* everything before the await is one step, everything after it another,   *)
(* so that other requests interleave exactly where the event loop lets     *)
(* them.  The file system, the clock, Math.random and the storage services *)
(* are the environment: each of their answers is drawn from a small set.   *)
(* A storage service that fails is taken to fail with an Error object, as  *)
(* the handlers' use of error.message supposes.                            *)
(***************************************************************************)
EXTENDS Integers, Sequences, FiniteSets, TLC

VARIABLES req, disk, store, calls

vars == <<req, disk, store, calls>>

---------------------------------------------------------------------------
(* Bounds *)

NumReqs == 2    \* upload requests followed
MaxClock == 1   \* Date.now() ranges over 0..MaxClock
MaxRand == 1    \* Math.round(Math.random() * 1e9) ranges over 0..MaxRand
MaxCalls == 3   \* lookup / delete calls followed

Reqs == 1..NumReqs

---------------------------------------------------------------------------
(* JavaScript values *)

\* the value of an absent field, and the strings the requests carry
Undefined == "<undefined>"

\* !x of a string-or-undefined value
Falsy(x) == x = Undefined \/ x = ""

HttpExceptionClasses ==
  {"HttpException", "BadRequestException", "PayloadTooLargeException",
   "InternalServerErrorException", "NotFoundException"}

\* error instanceof HttpException
InstanceOfHttpException(e) == e.cls \in HttpExceptionClasses

NoError == [cls |-> "", status |-> 0, message |-> ""]

BadRequestException(msg) ==
  [cls |-> "BadRequestException", status |-> 400, message |-> msg]

PayloadTooLargeException(msg) ==
  [cls |-> "PayloadTooLargeException", status |-> 413, message |-> msg]

PlainError(msg) == [cls |-> "Error", status |-> 0, message |-> msg]

TypeError(msg) == [cls |-> "TypeError", status |-> 0, message |-> msg]

\* a StorageFile as far as the controller looks at it, or null / undefined
NullResult == [isNull |-> TRUE, url |-> ""]

StorageFile(u) == [isNull |-> FALSE, url |-> u]

NoResponse == [type |-> "none", error |-> NoError, value |-> NullResult]

Return(v) == [type |-> "return", error |-> NoError, value |-> v]

Throw(e) == [type |-> "throw", error |-> e, value |-> NullResult]

---------------------------------------------------------------------------
(* path.extname over a file name given as its sequence of characters:      *)
(* the part from the last "." on, empty when there is no "." or when the   *)
(* only "." is the first character.                                        *)

RECURSIVE LastDot(_, _)
LastDot(name, i) ==
  IF i = 0 THEN 0
  ELSE IF name[i] = "." THEN i
  ELSE LastDot(name, i - 1)

extname(name) ==
  LET i == LastDot(name, Len(name))
  IN IF i <= 1 THEN <<>> ELSE SubSeq(name, i, Len(name))

---------------------------------------------------------------------------
(* What a client sends *)

photo_png == <<"p", "h", "o", "t", "o", ".", "p", "n", "g">>

README == <<"R", "E", "A", "D", "M", "E">>

\* an absent or empty id, and a good one
IdInputs == {"u1", "", Undefined}

\* the example upload of the API documentation; a file of exactly the
\* ceiling's size whose name has no extension; one byte more; a text file
Uploads ==
  { [originalname |-> photo_png, mimetype |-> "image/png", size |-> 1024],
    [originalname |-> README, mimetype |-> "image/jpg", size |-> 5 * 1024 * 1024],
    [originalname |-> photo_png, mimetype |-> "image/png", size |-> 5 * 1024 * 1024 + 1],
    [originalname |-> photo_png, mimetype |-> "text/plain", size |-> 1024] }

OriginalNames == {up.originalname : up \in Uploads}

\* the multipart body's text fields (userId / tutoringId, fileName)
Bodies == [id : IdInputs, fileName : {Undefined}]

NoBody == [id |-> Undefined, fileName |-> Undefined]

---------------------------------------------------------------------------
(* The staging directories and the file system *)

tmpDir == "tmp"

avatarProfileDir == tmpDir \o "/avatar-profile"

tutoringImagesDir == tmpDir \o "/tutoring-images"

\* `${Date.now()}-${Math.round(Math.random() * 1e9)}${path.extname(...)}`: two
\* such strings are equal exactly when the three parts are (digits, "-",
\* digits, then nothing or a part that starts with "."), so the name is kept
\* as the triple.
uniqueName(t, rnd, originalname) == <<t, rnd, extname(originalname)>>

Names ==
  {uniqueName(t, rnd, n) : t \in 0..MaxClock, rnd \in 0..MaxRand, n \in OriginalNames}

Paths == {avatarProfileDir, tutoringImagesDir} \X Names

NoPath == <<>>

\* disk[p] is 0 when no file is at p, else the request whose bytes the file holds
Absent == 0

\* the multer File the handler receives, or undefined (present = FALSE)
NoFile ==
  [present |-> FALSE, originalname |-> <<>>, mimetype |-> "", size |-> 0,
   path |-> NoPath]

\* fs.unlinkSync(p): envOk = FALSE is a refusal by the operating system
\* (EPERM, EBUSY); a file that is not there is ENOENT whatever envOk is
unlinkSync(d, p, envOk) ==
  IF d[p] # Absent /\ envOk
  THEN [ok |-> TRUE, disk |-> [d EXCEPT ![p] = Absent]]
  ELSE [ok |-> FALSE, disk |-> d]

\* fs.readFileSync(p)
readFileSync(d, p, envOk) ==
  IF d[p] = Absent
  THEN [ok |-> FALSE, buffer |-> Absent,
        error |-> PlainError("ENOENT: no such file or directory")]
  ELSE IF ~envOk
  THEN [ok |-> FALSE, buffer |-> Absent,
        error |-> PlainError("EACCES: permission denied")]
  ELSE [ok |-> TRUE, buffer |-> d[p], error |-> NoError]

---------------------------------------------------------------------------
(* The storage services' answers to an upload *)

Resolved(v) == [settled |-> "resolve", value |-> v, error |-> NoError]

Rejected(e) == [settled |-> "reject", value |-> NullResult, error |-> e]

NotSettled == [settled |-> "none", value |-> NullResult, error |-> NoError]

UploadOutcomes ==
  { Resolved(StorageFile("https://storage/public/u1/photo.png")),
    Resolved(NullResult),
    Rejected([cls |-> "InternalServerErrorException", status |-> 500,
              message |-> "Error al subir el archivo"]),
    Rejected(PlainError("fetch failed")) }

---------------------------------------------------------------------------
(* One upload request *)

NoUpload == [originalname |-> <<>>, mimetype |-> "", size |-> 0]

\* pc: idle, rejected (by the interceptor), accepted (handed to the handler),
\* awaiting (the storage service), done.  upload is what the client sent, file
\* and dto what the handler receives.
IdleReq ==
  [pc |-> "idle", kind |-> "none", upload |-> NoUpload, file |-> NoFile,
   dto |-> NoBody,
   buffer |-> Absent, uploads |-> 0, unlinks |-> <<>>, trace |-> <<>>,
   readOk |-> FALSE, readError |-> NoError, outcome |-> NotSettled, response |-> NoResponse,
   existsAtExit |-> FALSE]

\* the handler leaves with response resp, the disk being d
Exit(rec, d, resp) ==
  [rec EXCEPT !.pc = "done", !.response = resp,
              !.existsAtExit = rec.file.present /\ d[rec.file.path] # Absent]

\* a removal attempt on the request's staging file, its result recorded
TryUnlink(s, envOk) ==
  LET u == unlinkSync(s.disk, s.rec.file.path, envOk)
  IN [rec |-> [s.rec EXCEPT !.unlinks = Append(@, u.ok),
                            !.trace = Append(@, "unlink")],
      disk |-> u.disk]

---------------------------------------------------------------------------
(* FileInterceptor('file', {storage: diskStorage(...), limits, fileFilter}) *)

\* Multer on request r, filt being what the fileFilter callback says of the
\* file, p the destination and the name the storage callbacks give it, and
\* fileSize the limit: without a file part the handler gets file = undefined;
\* a file the filter refuses ends the request with the filter's error; an
\* accepted file is written at p, and one longer than fileSize is removed
\* again and the request ends with 413 (LIMIT_FILE_SIZE).
FileInterceptor(r, kind, hasFile, up, body, p, filt, fileSize) ==
  /\ req[r].pc = "idle"
  \* requests are numbered in the order they arrive
  /\ IF r = 1 THEN TRUE ELSE req[r - 1].pc # "idle"
  /\ IF ~hasFile
     THEN /\ req' = [req EXCEPT ![r] =
                       [IdleReq EXCEPT !.pc = "accepted", !.kind = kind, !.dto = body]]
          /\ UNCHANGED disk
     ELSE IF ~filt.accept
     THEN /\ req' = [req EXCEPT ![r] =
                       [IdleReq EXCEPT !.pc = "rejected", !.kind = kind,
                                       !.upload = up,
                                       !.response = Throw(filt.error)]]
          /\ UNCHANGED disk
     ELSE IF up.size > fileSize
     THEN /\ req' = [req EXCEPT ![r] =
                       [IdleReq EXCEPT
                          !.pc = "rejected", !.kind = kind, !.upload = up,
                          !.response = Throw(PayloadTooLargeException("File too large"))]]
          /\ disk' = [disk EXCEPT ![p] = Absent]
     ELSE /\ req' = [req EXCEPT ![r] =
                       [IdleReq EXCEPT
                          !.pc = "accepted", !.kind = kind, !.upload = up, !.dto = body,
                          !.file = [present |-> TRUE,
                                    originalname |-> up.originalname,
                                    mimetype |-> up.mimetype,
                                    size |-> up.size,
                                    path |-> p]]]
          /\ disk' = [disk EXCEPT ![p] = r]
  /\ UNCHANGED <<store, calls>>

---------------------------------------------------------------------------
(* POST /storage/avatars *)

avatarDestination == avatarProfileDir

avatarFilename(t, rnd, file) == uniqueName(t, rnd, file.originalname)

avatarFileSize == 5 * 1024 * 1024

\* the allow-list with one type too many
avatarAllowedMimes_WithText ==
  {"image/jpeg", "image/png", "image/gif", "image/webp", "image/jpg", "text/plain"}

avatarAllowedMimes == {"image/jpeg", "image/png", "image/gif", "image/webp", "image/jpg"}

avatarFileFilter(file) ==
  IF file.mimetype \in avatarAllowedMimes
  THEN [accept |-> TRUE, error |-> NoError]
  ELSE [accept |-> FALSE,
        error |-> BadRequestException("Tipo de archivo no permitido: " \o file.mimetype)]

InterceptAvatar(r) ==
  \E hasFile \in BOOLEAN, up \in Uploads, body \in Bodies,
     t \in 0..MaxClock, rnd \in 0..MaxRand :
    FileInterceptor(r, "avatar", hasFile, up, body,
                    <<avatarDestination, avatarFilename(t, rnd, up)>>,
                    avatarFileFilter(up), avatarFileSize)

\* the head of the try block without the check of the id
uploadAvatarValidate_NoIdCheck(rec) ==
  IF ~rec.file.present
  THEN BadRequestException("No se recibió ningún archivo")
  ELSE NoError

\* the two checks at the head of the try block
uploadAvatarValidate(rec) ==
  IF ~rec.file.present
  THEN BadRequestException("No se recibió ningún archivo")
  ELSE IF Falsy(rec.dto.id)
  THEN BadRequestException("Se requiere un ID de usuario")
  ELSE NoError

\* the catch block without the removal of the staging file
uploadAvatarCatch_NoUnlink(s, error, envOk) ==
  LET thrown == IF InstanceOfHttpException(error)
                THEN error
                ELSE BadRequestException("Error al procesar el avatar: " \o error.message)
  IN [rec |-> Exit([s.rec EXCEPT !.trace = Append(@, "throw")], s.disk, Throw(thrown)),
      disk |-> s.disk]

\* the catch block wrapping whatever it caught
uploadAvatarCatch_AlwaysWrap(s, error, envOk) ==
  LET s1 == IF s.rec.file.present THEN TryUnlink(s, envOk) ELSE s
      thrown == BadRequestException("Error al procesar el avatar: " \o error.message)
  IN [rec |-> Exit([s1.rec EXCEPT !.trace = Append(@, "throw")], s1.disk, Throw(thrown)),
      disk |-> s1.disk]

\* the catch block: s is the request and the disk when error is caught
uploadAvatarCatch(s, error, envOk) ==
  LET s1 == IF s.rec.file.present THEN TryUnlink(s, envOk) ELSE s
      thrown == IF InstanceOfHttpException(error)
                THEN error
                ELSE BadRequestException("Error al procesar el avatar: " \o error.message)
  IN [rec |-> Exit([s1.rec EXCEPT !.trace = Append(@, "throw")], s1.disk, Throw(thrown)),
      disk |-> s1.disk]

\* the try block up to the await: s.rec.pc is "awaiting" when the storage
\* service has been called, "done" when the block threw
uploadAvatarCall(s, readEnvOk, envOk) ==
  LET v == uploadAvatarValidate(s.rec)
      s1 == [s EXCEPT !.rec.trace = Append(@, "validate")]
      rd == readFileSync(s.disk, s.rec.file.path, readEnvOk)
      s2 == [s1 EXCEPT !.rec.trace = Append(@, "read"), !.rec.readOk = rd.ok,
                       !.rec.readError = rd.error, !.rec.buffer = rd.buffer]
  IN IF v # NoError THEN uploadAvatarCatch(s1, v, envOk)
     ELSE IF ~rd.ok THEN uploadAvatarCatch(s2, rd.error, envOk)
     ELSE [s2 EXCEPT !.rec.pc = "awaiting", !.rec.uploads = @ + 1,
                     !.rec.trace = Append(@, "delegate")]

\* the try block after the await with the success path's removal outside any
\* try of its own: a failed removal lands in the catch block
uploadAvatarResume_UnlinkThrows(s, outcome, envOk1, envOk2) ==
  LET s0 == [s EXCEPT !.rec.outcome = outcome]
      s1 == TryUnlink(s0, envOk1)
      removed == s1.rec.unlinks[Len(s1.rec.unlinks)]
  IN IF outcome.settled = "reject" THEN uploadAvatarCatch(s0, outcome.error, envOk1)
     ELSE IF ~removed
     THEN uploadAvatarCatch(s1, PlainError("EPERM: operation not permitted, unlink"), envOk2)
     ELSE IF outcome.value.isNull
     THEN uploadAvatarCatch(
            s1, TypeError("Cannot read properties of null (reading 'url')"), envOk2)
     ELSE [rec |-> Exit([s1.rec EXCEPT !.trace = Append(@, "return")], s1.disk,
                        Return(outcome.value)),
           disk |-> s1.disk]

\* the try block after the await, the storage service having settled
uploadAvatarResume(s, outcome, envOk1, envOk2) ==
  LET s0 == [s EXCEPT !.rec.outcome = outcome]
      s1 == TryUnlink(s0, envOk1)
  IN IF outcome.settled = "reject" THEN uploadAvatarCatch(s0, outcome.error, envOk1)
     ELSE IF outcome.value.isNull
     THEN uploadAvatarCatch(
            s1, TypeError("Cannot read properties of null (reading 'url')"), envOk2)
     ELSE [rec |-> Exit([s1.rec EXCEPT !.trace = Append(@, "return")], s1.disk,
                        Return(outcome.value)),
           disk |-> s1.disk]

uploadAvatarBegin(r) ==
  /\ req[r].pc = "accepted"
  /\ req[r].kind = "avatar"
  /\ \E readEnvOk \in BOOLEAN, envOk \in BOOLEAN :
       LET s == uploadAvatarCall([rec |-> req[r], disk |-> disk], readEnvOk, envOk)
       IN /\ req' = [req EXCEPT ![r] = s.rec]
          /\ disk' = s.disk
  /\ UNCHANGED <<store, calls>>

uploadAvatarSettle(r) ==
  /\ req[r].pc = "awaiting"
  /\ req[r].kind = "avatar"
  /\ \E outcome \in UploadOutcomes, envOk1 \in BOOLEAN, envOk2 \in BOOLEAN :
       LET s == uploadAvatarResume([rec |-> req[r], disk |-> disk], outcome, envOk1, envOk2)
       IN /\ req' = [req EXCEPT ![r] = s.rec]
          /\ disk' = s.disk
  /\ UNCHANGED <<store, calls>>

---------------------------------------------------------------------------
(* POST /storage/tutoring-images *)

tutoringDestination == tutoringImagesDir

tutoringFilename(t, rnd, file) == uniqueName(t, rnd, file.originalname)

tutoringFileSize == 5 * 1024 * 1024

tutoringAllowedMimes == {"image/jpeg", "image/png", "image/gif", "image/webp", "image/jpg"}

tutoringFileFilter(file) ==
  IF file.mimetype \in tutoringAllowedMimes
  THEN [accept |-> TRUE, error |-> NoError]
  ELSE [accept |-> FALSE,
        error |-> BadRequestException("Tipo de archivo no permitido: " \o file.mimetype)]

InterceptTutoringImage(r) ==
  \E hasFile \in BOOLEAN, up \in Uploads, body \in Bodies,
     t \in 0..MaxClock, rnd \in 0..MaxRand :
    FileInterceptor(r, "tutoring", hasFile, up, body,
                    <<tutoringDestination, tutoringFilename(t, rnd, up)>>,
                    tutoringFileFilter(up), tutoringFileSize)

\* the head of the try block with the two checks the other way round
uploadTutoringImageValidate_IdFirst(rec) ==
  IF Falsy(rec.dto.id)
  THEN BadRequestException("Se requiere un ID de sesión de tutoría")
  ELSE IF ~rec.file.present
  THEN BadRequestException("No se recibió ningún archivo")
  ELSE NoError

\* the two checks at the head of the try block
uploadTutoringImageValidate(rec) ==
  IF ~rec.file.present
  THEN BadRequestException("No se recibió ningún archivo")
  ELSE IF Falsy(rec.dto.id)
  THEN BadRequestException("Se requiere un ID de sesión de tutoría")
  ELSE NoError

\* the catch block: s is the request and the disk when error is caught
uploadTutoringImageCatch(s, error, envOk) ==
  LET s1 == IF s.rec.file.present THEN TryUnlink(s, envOk) ELSE s
      thrown == IF InstanceOfHttpException(error)
                THEN error
                ELSE BadRequestException("Error al procesar la imagen de tutoría: " \o error.message)
  IN [rec |-> Exit([s1.rec EXCEPT !.trace = Append(@, "throw")], s1.disk, Throw(thrown)),
      disk |-> s1.disk]

\* the try block up to the await: s.rec.pc is "awaiting" when the storage
\* service has been called, "done" when the block threw
uploadTutoringImageCall(s, readEnvOk, envOk) ==
  LET v == uploadTutoringImageValidate(s.rec)
      s1 == [s EXCEPT !.rec.trace = Append(@, "validate")]
      rd == readFileSync(s.disk, s.rec.file.path, readEnvOk)
      s2 == [s1 EXCEPT !.rec.trace = Append(@, "read"), !.rec.readOk = rd.ok,
                       !.rec.readError = rd.error, !.rec.buffer = rd.buffer]
  IN IF v # NoError THEN uploadTutoringImageCatch(s1, v, envOk)
     ELSE IF ~rd.ok THEN uploadTutoringImageCatch(s2, rd.error, envOk)
     ELSE [s2 EXCEPT !.rec.pc = "awaiting", !.rec.uploads = @ + 1,
                     !.rec.trace = Append(@, "delegate")]

\* the try block after the await, the storage service having settled
uploadTutoringImageResume(s, outcome, envOk1, envOk2) ==
  LET s0 == [s EXCEPT !.rec.outcome = outcome]
      s1 == TryUnlink(s0, envOk1)
  IN IF outcome.settled = "reject" THEN uploadTutoringImageCatch(s0, outcome.error, envOk1)
     ELSE IF outcome.value.isNull
     THEN uploadTutoringImageCatch(
            s1, TypeError("Cannot read properties of null (reading 'url')"), envOk2)
     ELSE [rec |-> Exit([s1.rec EXCEPT !.trace = Append(@, "return")], s1.disk,
                        Return(outcome.value)),
           disk |-> s1.disk]

uploadTutoringImageBegin(r) ==
  /\ req[r].pc = "accepted"
  /\ req[r].kind = "tutoring"
  /\ \E readEnvOk \in BOOLEAN, envOk \in BOOLEAN :
       LET s == uploadTutoringImageCall([rec |-> req[r], disk |-> disk], readEnvOk, envOk)
       IN /\ req' = [req EXCEPT ![r] = s.rec]
          /\ disk' = s.disk
  /\ UNCHANGED <<store, calls>>

uploadTutoringImageSettle(r) ==
  /\ req[r].pc = "awaiting"
  /\ req[r].kind = "tutoring"
  /\ \E outcome \in UploadOutcomes, envOk1 \in BOOLEAN, envOk2 \in BOOLEAN :
       LET s == uploadTutoringImageResume([rec |-> req[r], disk |-> disk], outcome, envOk1, envOk2)
       IN /\ req' = [req EXCEPT ![r] = s.rec]
          /\ disk' = s.disk
  /\ UNCHANGED <<store, calls>>

---------------------------------------------------------------------------
(* The storage services behind the lookup and delete endpoints.  store is   *)
(* the set of assets they hold, an asset being <<category, entity id, file  *)
(* name>>.  A lookup of a stored asset resolves its public URL; for an      *)
(* asset they do not hold, a service either fails with its own not-found    *)
(* error or resolves the URL the asset would have.  A delete reports        *)
(* whether the asset was removed; either call may also fail outright.       *)

EntityIds == {"u1", "u2"}

FileNames == {"photo.png"}

Keys == {"avatars", "tutoring-images"} \X EntityIds \X FileNames

publicUrl(key) == "https://storage/public/" \o key[1] \o "/" \o key[2] \o "/" \o key[3]

NotFoundException(msg) == [cls |-> "NotFoundException", status |-> 404, message |-> msg]

ServiceResolved(u, b) == [settled |-> "resolve", url |-> u, flag |-> b, error |-> NoError]

ServiceRejected(e) == [settled |-> "reject", url |-> "", flag |-> FALSE, error |-> e]

\* the answers a service may give to getXUrl(id, fileName)
ServiceGetUrl(st, key) ==
  IF key \in st
  THEN {ServiceResolved(publicUrl(key), FALSE), ServiceRejected(PlainError("fetch failed"))}
  ELSE {ServiceResolved(publicUrl(key), FALSE),
        ServiceRejected(NotFoundException("Object not found"))}

\* the answers a service may give to deleteX(id, fileName), each with the
\* assets held afterwards
ServiceDelete(st, key) ==
  IF key \in st
  THEN {[answer |-> ServiceResolved("", TRUE), store |-> st \ {key}],
        [answer |-> ServiceRejected(PlainError("fetch failed")), store |-> st]}
  ELSE {[answer |-> ServiceResolved("", FALSE), store |-> st],
        [answer |-> ServiceRejected(NotFoundException("Object not found")), store |-> st]}

---------------------------------------------------------------------------
(* GET and DELETE /storage/avatars/:userId/:fileName,                       *)
(* GET and DELETE /storage/tutoring-images/:tutoringId/:fileName            *)

\* what a lookup or delete handler answers: a body {url} or {success}, or
\* the error it lets through
ReturnUrl(u) == [type |-> "return", field |-> "url", url |-> u, success |-> FALSE,
                 error |-> NoError]

ReturnSuccess(b) == [type |-> "return", field |-> "success", url |-> "", success |-> b,
                     error |-> NoError]

ThrowThrough(e) == [type |-> "throw", field |-> "", url |-> "", success |-> FALSE,
                    error |-> e]

\* a lookup that answers an empty URL when the service fails
getAvatarUrlResponse_Masked(answer) ==
  IF answer.settled = "reject" THEN ReturnUrl("") ELSE ReturnUrl(answer.url)

\* the handler's answer, answer being what the awaited service call gave
getAvatarUrlResponse(answer) ==
  IF answer.settled = "reject" THEN ThrowThrough(answer.error) ELSE ReturnUrl(answer.url)

deleteAvatarResponse(answer) ==
  IF answer.settled = "reject" THEN ThrowThrough(answer.error) ELSE ReturnSuccess(answer.flag)

getTutoringImageUrlResponse(answer) ==
  IF answer.settled = "reject" THEN ThrowThrough(answer.error) ELSE ReturnUrl(answer.url)

deleteTutoringImageResponse(answer) ==
  IF answer.settled = "reject" THEN ThrowThrough(answer.error) ELSE ReturnSuccess(answer.flag)

Logged(op, key, answer, response) ==
  Append(calls, [op |-> op, key |-> key, answer |-> answer, response |-> response])

getAvatarUrl(userId, fileName) ==
  /\ Len(calls) < MaxCalls
  /\ LET key == <<"avatars", userId, fileName>>
     IN \E answer \in ServiceGetUrl(store, key) :
          calls' = Logged("lookup", key, answer, getAvatarUrlResponse(answer))
  /\ UNCHANGED <<req, disk, store>>

deleteAvatar(userId, fileName) ==
  /\ Len(calls) < MaxCalls
  /\ LET key == <<"avatars", userId, fileName>>
     IN \E d \in ServiceDelete(store, key) :
          /\ calls' = Logged("delete", key, d.answer, deleteAvatarResponse(d.answer))
          /\ store' = d.store
  /\ UNCHANGED <<req, disk>>

getTutoringImageUrl(tutoringId, fileName) ==
  /\ Len(calls) < MaxCalls
  /\ LET key == <<"tutoring-images", tutoringId, fileName>>
     IN \E answer \in ServiceGetUrl(store, key) :
          calls' = Logged("lookup", key, answer, getTutoringImageUrlResponse(answer))
  /\ UNCHANGED <<req, disk, store>>

deleteTutoringImage(tutoringId, fileName) ==
  /\ Len(calls) < MaxCalls
  /\ LET key == <<"tutoring-images", tutoringId, fileName>>
     IN \E d \in ServiceDelete(store, key) :
          /\ calls' = Logged("delete", key, d.answer, deleteTutoringImageResponse(d.answer))
          /\ store' = d.store
  /\ UNCHANGED <<req, disk>>

---------------------------------------------------------------------------

Init ==
  /\ req = [r \in Reqs |-> IdleReq]
  /\ disk = [p \in Paths |-> Absent]
  /\ store = {}
  /\ calls = <<>>

Next ==
  \/ \E r \in Reqs : InterceptAvatar(r)
  \/ \E r \in Reqs : uploadAvatarBegin(r)
  \/ \E r \in Reqs : uploadAvatarSettle(r)
  \/ \E r \in Reqs : InterceptTutoringImage(r)
  \/ \E r \in Reqs : uploadTutoringImageBegin(r)
  \/ \E r \in Reqs : uploadTutoringImageSettle(r)

Spec == Init /\ [][Next]_vars

\* the lookup and delete endpoints over any set of stored assets
InitPass ==
  /\ req = [r \in Reqs |-> IdleReq]
  /\ disk = [p \in Paths |-> Absent]
  /\ store \in SUBSET Keys
  /\ calls = <<>>

NextPass ==
  \/ \E id \in EntityIds, fileName \in FileNames : getAvatarUrl(id, fileName)
  \/ \E id \in EntityIds, fileName \in FileNames : deleteAvatar(id, fileName)
  \/ \E id \in EntityIds, fileName \in FileNames : getTutoringImageUrl(id, fileName)
  \/ \E id \in EntityIds, fileName \in FileNames : deleteTutoringImage(id, fileName)

SpecPass == InitPass /\ [][NextPass]_vars

---------------------------------------------------------------------------
(* Properties *)

Done(r) == req[r].pc = "done"

\* a file was staged on disk for request r and handed to the handler
Staged(r) == req[r].file.present

MissingId(r) == Falsy(req[r].dto.id)

IdRequiredMessage(kind) ==
  IF kind = "avatar" THEN "Se requiere un ID de usuario"
  ELSE "Se requiere un ID de sesión de tutoría"

WrapPrefix(kind) ==
  IF kind = "avatar" THEN "Error al procesar el avatar: "
  ELSE "Error al procesar la imagen de tutoría: "

\* C1 as stated: once the handler of a request with a staged file has returned
\* or thrown, the staging file no longer exists.
C1_StagingFileGoneAtExit ==
  \A r \in Reqs : Done(r) /\ Staged(r) => ~req[r].existsAtExit

\* C1 as amended: the handler of a request with a staged file attempts the
\* removal before it returns or throws, on every path, and the file is still
\* there at the exit only if every removal attempt of the request failed.
C1_StagingFileGoneUnlessRemovalFailed ==
  \A r \in Reqs :
    Done(r) /\ Staged(r) =>
      /\ Len(req[r].unlinks) >= 1
      /\ req[r].existsAtExit => \A i \in 1..Len(req[r].unlinks) : ~req[r].unlinks[i]

\* one request left through the backend-failure path with its file removed,
\* another left with its file behind after a refused removal
C1_Witness ==
  \E r, s \in Reqs :
    /\ Done(r) /\ Staged(r) /\ req[r].outcome.settled = "reject"
    /\ req[r].unlinks = <<TRUE>> /\ ~req[r].existsAtExit
    /\ Done(s) /\ Staged(s) /\ req[s].unlinks = <<FALSE>> /\ req[s].existsAtExit

\* C2: two upload requests in flight at the same time have distinct staging
\* files.
C2_StagingNamesDistinct ==
  \A r, s \in Reqs :
    /\ r # s
    /\ req[r].pc \in {"accepted", "awaiting"} /\ Staged(r)
    /\ req[s].pc \in {"accepted", "awaiting"} /\ Staged(s)
    => req[r].file.path # req[s].file.path

\* C2, the consequence: a request whose file was staged, whose id is present
\* and whose read the operating system does not refuse reads its own bytes.
C2_ReadsOwnFile ==
  \A r \in Reqs :
    req[r].pc \in {"awaiting", "done"} /\ Staged(r) /\ req[r].readOk
      => req[r].buffer = r

\* C3 as stated: a handled request without an entity id fails with the client
\* error that says an identifier is required, with or without a file.
C3_MissingIdSaysIdRequired ==
  \A r \in Reqs :
    Done(r) /\ MissingId(r) =>
      req[r].response = Throw(BadRequestException(IdRequiredMessage(req[r].kind)))

\* C3 as amended: a handled request without an entity id fails with a 400 and
\* never reaches the storage service; the message says an identifier is
\* required when a file was received and that no file was received otherwise.
C3_MissingIdIsClientError ==
  \A r \in Reqs :
    Done(r) /\ MissingId(r) =>
      /\ req[r].uploads = 0
      /\ req[r].response =
           Throw(BadRequestException(
                   IF Staged(r) THEN IdRequiredMessage(req[r].kind)
                   ELSE "No se recibió ningún archivo"))

C3_Witness ==
  \E r, s \in Reqs :
    /\ Done(r) /\ MissingId(r) /\ Staged(r)
    /\ Done(s) /\ MissingId(s) /\ ~Staged(s)

\* C4: when the storage service's upload call fails, the caller gets that very
\* error if it is an HttpException, and otherwise a BadRequestException whose
\* message is the handler's prefix followed by the error's message.
C4_DelegationFailure ==
  \A r \in Reqs :
    Done(r) /\ req[r].outcome.settled = "reject" =>
      LET e == req[r].outcome.error
      IN /\ req[r].response.type = "throw"
         /\ e.cls \in HttpExceptionClasses => req[r].response.error = e
         /\ e.cls \notin HttpExceptionClasses =>
              /\ req[r].response.error.cls = "BadRequestException"
              /\ req[r].response.error.status = 400
              /\ req[r].response.error.message = WrapPrefix(req[r].kind) \o e.message

C4_Witness ==
  \E r, s \in Reqs :
    /\ Done(r) /\ req[r].outcome.settled = "reject"
    /\ req[r].outcome.error.cls = "InternalServerErrorException"
    /\ Done(s) /\ req[s].outcome.settled = "reject"
    /\ req[s].outcome.error.cls = "Error"

\* the same handler, the same inputs, the same result of the read and the same
\* answer of the storage service; the removals are left out
SameRun(r, s) ==
  /\ req[r].kind = req[s].kind
  /\ req[r].upload = req[s].upload
  /\ req[r].file.present = req[s].file.present
  /\ req[r].dto = req[s].dto
  /\ req[r].readOk = req[s].readOk
  /\ req[r].readError = req[s].readError
  /\ req[r].outcome = req[s].outcome

\* C5: two requests with the same inputs, the same read result and the same
\* answer of the storage service end the same way and attempt the removal the
\* same number of times, whatever their removals did.
C5_RemovalFailureChangesNothing ==
  \A r, s \in Reqs :
    Done(r) /\ Done(s) /\ SameRun(r, s) =>
      /\ req[r].response = req[s].response
      /\ Len(req[r].unlinks) = Len(req[s].unlinks)

\* the same upload twice, the storage service answering both alike: one
\* removal succeeded, the other was refused
C5_Witness ==
  \E r, s \in Reqs :
    /\ Done(r) /\ Done(s) /\ SameRun(r, s)
    /\ Staged(r) /\ req[r].outcome.settled = "resolve"
    /\ req[r].unlinks[1] /\ ~req[s].unlinks[1]

\* C6: a file reaches the handler only if its declared type is one of the five
\* allowed and its size is at most 5 MiB; any other file ends the request in
\* the interceptor with a client error, which names the type when the type is
\* the reason, and neither the handler nor the storage service runs for it.
C6_ValidationBeforeHandler ==
  \A r \in Reqs :
    LET up == req[r].upload
        typeOk == up.mimetype \in {"image/jpeg", "image/png", "image/gif",
                                   "image/webp", "image/jpg"}
        sizeOk == up.size <= 5242880
    IN /\ Staged(r) => typeOk /\ sizeOk
       /\ req[r].pc # "idle" /\ up # NoUpload /\ ~(typeOk /\ sizeOk) =>
            /\ req[r].pc = "rejected"
            /\ req[r].response.type = "throw"
            /\ req[r].response.error.status \in 400..499
            /\ req[r].trace = <<>>
            /\ req[r].uploads = 0
            /\ ~typeOk =>
                 req[r].response.error.message =
                   "Tipo de archivo no permitido: " \o up.mimetype

\* a text file was refused by its type and an image one byte over the
\* ceiling by its size
C6_Witness ==
  \E r, s \in Reqs :
    /\ req[r].pc = "rejected" /\ req[r].upload.mimetype = "text/plain"
    /\ req[s].pc = "rejected" /\ req[s].upload.mimetype = "image/png"
    /\ req[s].upload.size = 5242881

\* C8: a request calls the storage service's upload at most once, and not at
\* all without a file or without an entity id.
C8_AtMostOneUploadCall ==
  \A r \in Reqs :
    /\ req[r].uploads <= 1
    /\ ~Staged(r) \/ MissingId(r) => req[r].uploads = 0

\* one request failed after its single call, another had no file
C8_Witness ==
  \E r, s \in Reqs :
    /\ Done(r) /\ req[r].uploads = 1 /\ req[r].response.type = "throw"
    /\ Done(s) /\ ~Staged(s) /\ req[s].uploads = 0

\* the messages of the two handlers that say the same thing
SameMessage(a, t) ==
  \/ a = t
  \/ a = IdRequiredMessage("avatar") /\ t = IdRequiredMessage("tutoring")
  \/ \E m \in {o.error.message : o \in UploadOutcomes}
               \cup {"ENOENT: no such file or directory",
                     "EACCES: permission denied",
                     "Cannot read properties of null (reading 'url')"} :
       a = WrapPrefix("avatar") \o m /\ t = WrapPrefix("tutoring") \o m

\* C9: an avatar upload and a tutoring-image upload with the same inputs, the
\* same read result, the same answer of the storage service and the same
\* removal results take the same steps and end with the same outcome, up to
\* the texts of the messages.
C9_HandlersAlike ==
  \A r, s \in Reqs :
    /\ req[r].kind = "avatar" /\ req[s].kind = "tutoring"
    /\ req[r].pc \in {"rejected", "done"} /\ req[s].pc \in {"rejected", "done"}
    /\ req[r].upload = req[s].upload
    /\ req[r].file.present = req[s].file.present
    /\ req[r].dto = req[s].dto
    /\ req[r].readOk = req[s].readOk
    /\ req[r].readError = req[s].readError
    /\ req[r].outcome = req[s].outcome
    /\ req[r].unlinks = req[s].unlinks
    => /\ req[r].pc = req[s].pc
       /\ req[r].trace = req[s].trace
       /\ req[r].uploads = req[s].uploads
       /\ req[r].response.type = req[s].response.type
       /\ req[r].response.value = req[s].response.value
       /\ req[r].response.error.cls = req[s].response.error.cls
       /\ req[r].response.error.status = req[s].response.error.status
       /\ SameMessage(req[r].response.error.message, req[s].response.error.message)

\* the same upload went through both handlers to the storage service, which
\* failed both with a plain error
C9_Witness ==
  \E r, s \in Reqs :
    /\ req[r].kind = "avatar" /\ req[s].kind = "tutoring"
    /\ Done(r) /\ Done(s)
    /\ req[r].upload = req[s].upload /\ req[r].dto = req[s].dto
    /\ req[r].outcome = req[s].outcome
    /\ req[r].outcome = Rejected(PlainError("fetch failed"))
    /\ req[r].unlinks = req[s].unlinks

\* C10 as stated: the removal is attempted exactly once when a file was
\* staged, on every exit path, and never when no file was received.
C10_RemovalAttemptedExactlyOnce ==
  \A r \in Reqs : Done(r) => Len(req[r].unlinks) = IF Staged(r) THEN 1 ELSE 0

\* C10 as amended: never without a file; with a staged file exactly once,
\* except twice when the storage service resolved with null or undefined: once
\* on the success path and once more in the catch block.
C10_RemovalAttempts ==
  \A r \in Reqs :
    Done(r) =>
      Len(req[r].unlinks) =
        IF ~Staged(r) THEN 0
        ELSE IF req[r].outcome.settled = "resolve" /\ req[r].outcome.value.isNull THEN 2
        ELSE 1

C10_Witness ==
  \E r, s \in Reqs :
    /\ Done(r) /\ req[r].outcome = Resolved(NullResult) /\ req[r].unlinks = <<TRUE, FALSE>>
    /\ Done(s) /\ ~Staged(s) /\ req[s].unlinks = <<>>

\* C7: every lookup and delete answers what the storage service answered: its
\* URL as {url}, its boolean as {success}, its error unchanged; so a lookup
\* right after a delete of the same asset shows the service's not-found
\* behaviour, whichever it is.
C7_PassThrough ==
  \A i \in 1..Len(calls) :
    LET c == calls[i]
    IN /\ c.answer.settled = "reject" =>
            c.response.type = "throw" /\ c.response.error = c.answer.error
       /\ c.answer.settled = "resolve" /\ c.op = "lookup" =>
            /\ c.response.type = "return" /\ c.response.field = "url"
            /\ c.response.url = c.answer.url
       /\ c.answer.settled = "resolve" /\ c.op = "delete" =>
            /\ c.response.type = "return" /\ c.response.field = "success"
            /\ c.response.success = c.answer.flag
       /\ i > 1 /\ c.op = "lookup" /\ calls[i - 1].op = "delete"
          /\ calls[i - 1].key = c.key /\ calls[i - 1].response.success =>
            \/ c.response = ThrowThrough(NotFoundException("Object not found"))
            \/ c.response = ReturnUrl(publicUrl(c.key))

\* an asset was deleted and the lookup that followed let the service's
\* not-found error through
C7_Witness ==
  \E i \in 2..Len(calls) :
    /\ calls[i - 1].op = "delete" /\ calls[i - 1].response = ReturnSuccess(TRUE)
    /\ calls[i].op = "lookup" /\ calls[i].key = calls[i - 1].key
    /\ calls[i].response = ThrowThrough(NotFoundException("Object not found"))

====
